---- MODULE Spec2Model ----
(***************************************************************************)
(* Model of packages/cli/src/commands/add/plugin/create-new-plugin.ts:     *)
(* the interactive flow createNewPlugin, the template instantiation        *)
(* generatePlugin and the placement policy getPluginDirName.               *)
(*                                                                         *)
(* Strings are sequences of one-character strings, so that the regular     *)
(* expressions and the change-case conversions are computed character by   *)
(* character.  Paths are sequences of segments (each segment a string).    *)
(***************************************************************************)
EXTENDS Integers, Sequences, FiniteSets, TLC

VARIABLES
    cwd,             \* process.cwd(), a path
    fsPaths,         \* the paths that exist on disk (fs.existsSync)
    tpl,             \* which declarations the template files on disk hold
    configShape,     \* TRUE iff the configuration file has the expected shape
    caller,          \* who called generatePlugin: "createNewPlugin" or "direct"
    pc,              \* position of the control flow
    options,         \* GeneratePluginOptions: name, pluginDir
    pluginDir,       \* const pluginDir of createNewPlugin (the offered default)
    promptError,     \* <<>> or <<m>>: the message the open prompt's validate callback last returned
    ctx,             \* generatePlugin locals: nameWithoutPlugin, normalizedName, templateContext
    project,         \* ts-morph project in memory: file kind -> source file
    written,         \* the source files project.save() has put on disk
    plugin,          \* <<>> or <<VendurePluginRef>>
    config,          \* the configuration file in memory
    configDisk,      \* the configuration file on disk
    configSaves,     \* how often the configuration file was saved
    done,            \* let done of the feature loop
    featureType,     \* <<>> or <<v>>: const featureType of the running loop iteration
    running,         \* <<>> or <<call>>: the feature generator call being awaited
    calls,           \* generator -> number of completed or started invocations
    shown,           \* how often the feature menu was displayed
    cancelledAt,     \* <<>> or <<p>>: the prompt p at which isCancel(...) was true
    output,          \* what was printed, in order
    exitCode         \* <<>> while running, <<0>> after process.exit(0), <<1>> after an uncaught error

vars == <<cwd, fsPaths, tpl, configShape, caller, pc, options, pluginDir, promptError,
          ctx, project, written, plugin, config, configDisk, configSaves, done,
          featureType, running, calls, shown, cancelledAt, output, exitCode>>

-----------------------------------------------------------------------------
(* Bounds *)

MaxStem == 2     \* longest stem of an enumerated name, before its plugin tails
MaxMenu == 3     \* how often the feature menu is displayed at most

-----------------------------------------------------------------------------
(* Characters and strings *)

LowerAlpha == <<"a","b","c","d","e","f","g","h","i","j","k","l","m",
                "n","o","p","q","r","s","t","u","v","w","x","y","z">>
UpperAlpha == <<"A","B","C","D","E","F","G","H","I","J","K","L","M",
                "N","O","P","Q","R","S","T","U","V","W","X","Y","Z">>
Digits == {"0","1","2","3","4","5","6","7","8","9"}

IsLower(c) == \E i \in DOMAIN LowerAlpha : LowerAlpha[i] = c
IsUpper(c) == \E i \in DOMAIN UpperAlpha : UpperAlpha[i] = c
IsDigit(c) == c \in Digits
IsAlnum(c) == IsLower(c) \/ IsUpper(c) \/ IsDigit(c)

ToLowerChar(c) ==
    IF IsUpper(c) THEN LowerAlpha[CHOOSE i \in DOMAIN UpperAlpha : UpperAlpha[i] = c] ELSE c
ToUpperChar(c) ==
    IF IsLower(c) THEN UpperAlpha[CHOOSE i \in DOMAIN LowerAlpha : LowerAlpha[i] = c] ELSE c

toLowerCase(s) == [i \in 1..Len(s) |-> ToLowerChar(s[i])]
toUpperCase(s) == [i \in 1..Len(s) |-> ToUpperChar(s[i])]

Prefix(s, n) == SubSeq(s, 1, n)
Suffix(s, n) == SubSeq(s, Len(s) - n + 1, Len(s))

S_plugin == <<"p","l","u","g","i","n">>
S_dashPlugin == <<"-","p","l","u","g","i","n">>

(* /^[a-z][a-z-0-9]+$/.test(input) *)
NameRegexTest(input) ==
    /\ Len(input) >= 2
    /\ IsLower(input[1])
    /\ \A i \in 2..Len(input) : IsLower(input[i]) \/ input[i] = "-" \/ IsDigit(input[i])

(* s.replace(/-?plugin$/i, ''): the leftmost match that ends at the end of s *)
StripNoDash(s) ==
    IF Len(s) >= 6 /\ toLowerCase(Suffix(s, 6)) = S_plugin
    THEN Prefix(s, Len(s) - 6)
    ELSE s
StripCaseSensitive(s) ==
    IF Len(s) >= 6 /\ Suffix(s, 6) = S_plugin
    THEN IF Len(s) >= 7 /\ s[Len(s) - 6] = "-"
         THEN Prefix(s, Len(s) - 7)
         ELSE Prefix(s, Len(s) - 6)
    ELSE s
StripPluginSuffix(s) ==
    IF Len(s) >= 6 /\ toLowerCase(Suffix(s, 6)) = S_plugin
    THEN IF Len(s) >= 7 /\ s[Len(s) - 6] = "-"
         THEN Prefix(s, Len(s) - 7)
         ELSE Prefix(s, Len(s) - 6)
    ELSE s

(* nameWithoutPlugin + '-plugin' *)
NormalizeName(name) == StripPluginSuffix(name) \o S_dashPlugin

-----------------------------------------------------------------------------
(* change-case 4: noCase splits the input into words, each conversion      *)
(* transforms the words and joins them with its delimiter.                 *)

(* A word boundary between s[i] and s[i+1], both alphanumeric:             *)
(* /([a-z0-9])([A-Z])/g and /([A-Z])([A-Z][a-z])/g                         *)
SplitAt(s, i) ==
    \/ (IsLower(s[i]) \/ IsDigit(s[i])) /\ IsUpper(s[i + 1])
    \/ IsUpper(s[i]) /\ IsUpper(s[i + 1]) /\ i + 2 <= Len(s) /\ IsLower(s[i + 2])

RECURSIVE SplitWords(_, _, _, _)
SplitWords(s, i, cur, acc) ==
    IF i > Len(s)
    THEN IF cur = <<>> THEN acc ELSE Append(acc, cur)
    ELSE IF ~IsAlnum(s[i])
         THEN SplitWords(s, i + 1, <<>>, IF cur = <<>> THEN acc ELSE Append(acc, cur))
         ELSE IF cur # <<>> /\ SplitAt(s, i - 1)
              THEN SplitWords(s, i + 1, <<s[i]>>, Append(acc, cur))
              ELSE SplitWords(s, i + 1, Append(cur, s[i]), acc)

(* the words of noCase(input), before transform and join *)
Words(s) == SplitWords(s, 1, <<>>, <<>>)

RECURSIVE Join(_, _)
Join(ws, delim) ==
    IF ws = <<>> THEN <<>>
    ELSE IF Len(ws) = 1 THEN ws[1]
    ELSE ws[1] \o delim \o Join(Tail(ws), delim)

(* pascalCaseTransform(input, index), index counted from 0 *)
pascalCaseTransform(w, index) ==
    IF index > 0 /\ IsDigit(w[1])
    THEN <<"_", w[1]>> \o toLowerCase(Tail(w))
    ELSE <<ToUpperChar(w[1])>> \o toLowerCase(Tail(w))

pascalCase(s) ==
    LET ws == Words(s)
    IN Join([i \in 1..Len(ws) |-> pascalCaseTransform(ws[i], i - 1)], <<>>)

constantCase(s) ==
    LET ws == Words(s)
    IN Join([i \in 1..Len(ws) |-> toUpperCase(ws[i])], <<"_">>)

paramCase(s) ==
    LET ws == Words(s)
    IN Join([i \in 1..Len(ws) |-> toLowerCase(ws[i])], <<"-">>)

-----------------------------------------------------------------------------
(* Paths *)

(* path.join(base, seg): an empty segment adds nothing *)
PathJoin(base, seg) == IF seg = <<>> THEN base ELSE Append(base, seg)

S_app == <<"a","p","p">>
S_plugins == <<"p","l","u","g","i","n","s">>
S_src == <<"s","r","c">>
S_packageJson == <<"p","a","c","k","a","g","e",".","j","s","o","n">>
S_typesTs == <<"t","y","p","e","s",".","t","s">>
S_constantsTs == <<"c","o","n","s","t","a","n","t","s",".","t","s">>
S_dotPluginTs == <<".","p","l","u","g","i","n",".","t","s">>
S_templates == <<"t","e","m","p","l","a","t","e","s">>
S_x == <<"x">>

existsSync(p) == p \in fsPaths

(* every directory above p, and p itself *)
WithParents(p) == {Prefix(p, n) : n \in 1..Len(p)}

-----------------------------------------------------------------------------
(* Inputs *)

StemChars == {"a", "-", "0"}
S_reviews == <<"r","e","v","i","e","w","s">>
Stems == UNION {[1..n -> StemChars] : n \in 0..MaxStem} \cup {S_reviews}

S_Plugin == <<"P","l","u","g","i","n">>
S_dashPLUGIN == <<"-","P","L","U","G","I","N">>
TailForms == {S_plugin, S_dashPlugin, S_Plugin, S_dashPLUGIN}
Tails == {<<>>} \cup TailForms \cup {a \o b : a \in TailForms, b \in TailForms}

(* what a caller may pass to generatePlugin as options.name *)
NameInputs == {s \o t : s \in Stems, t \in Tails}

(* what the user may type at the name prompt *)
PromptInputs == {s \o t : s \in Stems, t \in {<<>>, S_plugin, S_dashPlugin, S_dashPLUGIN}}

Cwds == {<<S_app>>, <<S_app, S_plugins>>}
NewDir == <<S_app, S_x>>

(* what the user may leave or type at the directory prompt *)
DirInputs(initialValue) == {initialValue, cwd, NewDir}

Generators == {"addEntity", "addService", "addUiExtensions", "addCodegen"}
FeatureTypes == {"no", "entity", "service", "uiExtensions", "codegen"}

-----------------------------------------------------------------------------
(* Constants of the program *)

cancelledMessage == "Plugin setup cancelled."
introMessage == "Adding a new Vendure plugin!"
outroMessage == "Plugin setup complete!"
nameInvalidMessage ==
    "The plugin name must be lowercase and contain only letters, numbers and dashes"
dirExistsMessage == "A directory named already exists. Please specify a different directory."
classNotFoundError == "Error: Could not find the plugin class in the generated file"
configShapeError == "Error: configuration declaration not found"

S_TemplatePlugin == <<"T","e","m","p","l","a","t","e","P","l","u","g","i","n">>
S_TEMPLATE_PLUGIN_OPTIONS ==
    <<"T","E","M","P","L","A","T","E","_","P","L","U","G","I","N","_",
      "O","P","T","I","O","N","S">>
S_OPTIONS == <<"_","O","P","T","I","O","N","S">>
S_pluginTemplateTs ==
    <<"p","l","u","g","i","n",".","t","e","m","p","l","a","t","e",".","t","s">>
S_typesTemplateTs ==
    <<"t","y","p","e","s",".","t","e","m","p","l","a","t","e",".","t","s">>
S_constantsTemplateTs ==
    <<"c","o","n","s","t","a","n","t","s",".","t","e","m","p","l","a","t","e",".","t","s">>

-----------------------------------------------------------------------------
(* getPluginDirName(name) *)

getPluginDirNameRootFirst(name) ==
    LET currentlyInPluginsDir == cwd[Len(cwd)] = S_plugins
        currentlyInRootDir == existsSync(PathJoin(cwd, S_packageJson))
        nameWithoutPlugin == StripPluginSuffix(name)
    IN IF currentlyInRootDir
       THEN PathJoin(PathJoin(PathJoin(cwd, S_src), S_plugins), paramCase(nameWithoutPlugin))
       ELSE PathJoin(cwd, paramCase(nameWithoutPlugin))
getPluginDirName(name) ==
    LET currentlyInPluginsDir == cwd[Len(cwd)] = S_plugins
        currentlyInRootDir == existsSync(PathJoin(cwd, S_packageJson))
        nameWithoutPlugin == StripPluginSuffix(name)
    IN IF currentlyInPluginsDir
       THEN PathJoin(cwd, paramCase(nameWithoutPlugin))
       ELSE IF currentlyInRootDir
            THEN PathJoin(PathJoin(PathJoin(cwd, S_src), S_plugins), paramCase(nameWithoutPlugin))
            ELSE PathJoin(cwd, paramCase(nameWithoutPlugin))

-----------------------------------------------------------------------------
(* The state after construction *)

NoCtx == [nameWithoutPlugin |-> <<>>, normalizedName |-> <<>>,
          pluginName |-> <<>>, pluginInitOptionsName |-> <<>>]

InitCommon ==
    /\ cwd \in Cwds
    /\ \E manifest \in BOOLEAN :
          fsPaths = WithParents(cwd) \cup
                    (IF manifest THEN {PathJoin(cwd, S_packageJson)} ELSE {})
    /\ tpl \in [class : BOOLEAN, options : BOOLEAN, logger : BOOLEAN]
    /\ pluginDir = <<>>
    /\ promptError = <<>>
    /\ ctx = NoCtx
    /\ project = <<>>
    /\ written = {}
    /\ plugin = <<>>
    /\ config = <<>>
    /\ configDisk = [plugins |-> <<>>, imports |-> <<>>]
    /\ configSaves = 0
    /\ done = FALSE
    /\ featureType = <<>>
    /\ running = <<>>
    /\ calls = [g \in Generators |-> 0]
    /\ shown = 0
    /\ cancelledAt = <<>>
    /\ output = <<>>
    /\ exitCode = <<>>

(* createNewPlugin is about to run *)
Init ==
    /\ InitCommon
    /\ configShape \in BOOLEAN
    /\ caller = "createNewPlugin"
    /\ pc = "start"
    /\ options = [name |-> <<>>, pluginDir |-> <<>>]

(* generatePlugin, which is exported, is called with any options *)
InitGen ==
    /\ InitCommon
    /\ configShape = TRUE
    /\ caller = "direct"
    /\ pc = "gp_derive"
    /\ options \in [name : NameInputs, pluginDir : {NewDir}]

-----------------------------------------------------------------------------
(* createNewPlugin: the prompts *)

Intro ==
    /\ pc = "start"
    /\ output' = Append(output, introMessage)
    /\ pc' = "name"
    /\ UNCHANGED <<featureType, cwd, fsPaths, tpl, configShape, caller, options, pluginDir, promptError,
                   ctx, project, written, plugin, config, configDisk, configSaves, done,
                   running, calls, shown, cancelledAt, exitCode>>

(* isCancel(x) was true at prompt p: cancel(cancelledMessage); process.exit(0) *)
CancelExitsNonZero(p) ==
    /\ cancelledAt' = <<p>>
    /\ output' = Append(output, cancelledMessage)
    /\ exitCode' = <<1>>
    /\ pc' = "exited"
CancelAndExit(p) ==
    /\ cancelledAt' = <<p>>
    /\ output' = Append(output, cancelledMessage)
    /\ exitCode' = <<0>>
    /\ pc' = "exited"

(* the validate callback of the name prompt *)
validateNameUnanchored(input) ==
    IF ~(Len(input) >= 2 /\ IsLower(input[1])
         /\ (IsLower(input[2]) \/ input[2] = "-" \/ IsDigit(input[2])))
    THEN <<nameInvalidMessage>>
    ELSE <<>>
validateName(input) == IF ~NameRegexTest(input) THEN <<nameInvalidMessage>> ELSE <<>>

(* the user submits input at the name prompt; text() returns only a validated value *)
NamePromptEnsureDir(input) ==
    /\ pc = "name"
    /\ IF validateName(input) # <<>>
       THEN /\ promptError' = validateName(input)
            /\ UNCHANGED <<pc, options, pluginDir, fsPaths>>
       ELSE /\ promptError' = <<>>
            /\ options' = [options EXCEPT !.name = input]
            /\ pluginDir' = getPluginDirName(input)
            /\ fsPaths' = fsPaths \cup WithParents(getPluginDirName(input))
            /\ pc' = "dir"
    /\ UNCHANGED <<featureType, cwd, tpl, configShape, caller, ctx, project, written, plugin,
                   config, configDisk, configSaves, done, running, calls, shown,
                   cancelledAt, output, exitCode>>
NamePrompt(input) ==
    /\ pc = "name"
    /\ IF validateName(input) # <<>>
       THEN /\ promptError' = validateName(input)
            /\ UNCHANGED <<pc, options, pluginDir>>
       ELSE /\ promptError' = <<>>
            /\ options' = [options EXCEPT !.name = input]
            /\ pluginDir' = getPluginDirName(input)
            /\ pc' = "dir"
    /\ UNCHANGED <<featureType, cwd, fsPaths, tpl, configShape, caller, ctx, project, written, plugin,
                   config, configDisk, configSaves, done, running, calls, shown,
                   cancelledAt, output, exitCode>>

NameCancel ==
    /\ pc = "name"
    /\ CancelAndExit("name")
    /\ UNCHANGED <<featureType, cwd, fsPaths, tpl, configShape, caller, options, pluginDir, promptError,
                   ctx, project, written, plugin, config, configDisk, configSaves, done,
                   running, calls, shown>>

(* the validate callback of the directory prompt *)
validateDir(input) == IF existsSync(input) THEN <<dirExistsMessage>> ELSE <<>>

(* the user submits input at the directory prompt; on success generatePlugin is called *)
DirPrompt(input) ==
    /\ pc = "dir"
    /\ IF validateDir(input) # <<>>
       THEN /\ promptError' = validateDir(input)
            /\ UNCHANGED <<pc, options>>
       ELSE /\ promptError' = <<>>
            /\ options' = [options EXCEPT !.pluginDir = input]
            /\ pc' = "gp_derive"
    /\ UNCHANGED <<featureType, cwd, fsPaths, tpl, configShape, caller, pluginDir, ctx, project, written,
                   plugin, config, configDisk, configSaves, done, running, calls, shown,
                   cancelledAt, output, exitCode>>

DirCancel ==
    /\ pc = "dir"
    /\ CancelAndExit("dir")
    /\ UNCHANGED <<featureType, cwd, fsPaths, tpl, configShape, caller, options, pluginDir, promptError,
                   ctx, project, written, plugin, config, configDisk, configSaves, done,
                   running, calls, shown>>

-----------------------------------------------------------------------------
(* generatePlugin *)

(* an uncaught Error: the command aborts *)
Throw(message) ==
    /\ output' = Append(output, message)
    /\ exitCode' = <<1>>
    /\ pc' = "crashed"

(* createFile(project, templatePath): the template, loaded into the project *)
createFile(kind) ==
    [path |-> <<S_templates,
                CASE kind = "plugin" -> S_pluginTemplateTs
                  [] kind = "types" -> S_typesTemplateTs
                  [] kind = "constants" -> S_constantsTemplateTs>>,
     class |-> IF kind = "plugin" /\ tpl.class THEN <<S_TemplatePlugin>> ELSE <<>>,
     optionsVar |-> IF kind = "constants" /\ tpl.options
                    THEN <<[name |-> S_TEMPLATE_PLUGIN_OPTIONS,
                            symbolTag |-> S_TEMPLATE_PLUGIN_OPTIONS]>>
                    ELSE <<>>,
     loggerCtx |-> IF kind = "constants" /\ tpl.logger
                   THEN <<[literal |-> S_TemplatePlugin]>>
                   ELSE <<>>]

(* lines 106-112 *)
DeriveContextNoStrip(name) ==
    LET nameWithoutPlugin == StripPluginSuffix(name)
        normalizedName == name \o S_dashPlugin
    IN [nameWithoutPlugin |-> nameWithoutPlugin,
        normalizedName |-> normalizedName,
        pluginName |-> pascalCase(normalizedName),
        pluginInitOptionsName |-> constantCase(normalizedName) \o S_OPTIONS]
DeriveContext(name) ==
    LET nameWithoutPlugin == StripPluginSuffix(name)
        normalizedName == nameWithoutPlugin \o S_dashPlugin
    IN [nameWithoutPlugin |-> nameWithoutPlugin,
        normalizedName |-> normalizedName,
        pluginName |-> pascalCase(normalizedName),
        pluginInitOptionsName |-> constantCase(normalizedName) \o S_OPTIONS]

GP_Derive ==
    /\ pc = "gp_derive"
    /\ ctx' = DeriveContext(options.name)
    /\ output' = Append(output, "Generating plugin scaffold...")
    /\ project' = <<>>
    /\ pc' = "gp_class"
    /\ UNCHANGED <<featureType, cwd, fsPaths, tpl, configShape, caller, options, pluginDir, promptError,
                   written, plugin, config, configDisk, configSaves, done, running, calls,
                   shown, cancelledAt, exitCode>>

(* lines 119-124: load the plugin template, find the class or throw, rename it *)
GP_PluginClassLenient ==
    /\ pc = "gp_class"
    /\ LET pluginFile == createFile("plugin")
       IN /\ project' = ("plugin" :> [pluginFile EXCEPT
                             !.class = IF @ = <<>> THEN @ ELSE <<ctx.pluginName>>])
          /\ pc' = "gp_consts"
          /\ UNCHANGED <<output, exitCode>>
    /\ UNCHANGED <<featureType, cwd, fsPaths, tpl, configShape, caller, options, pluginDir, promptError,
                   ctx, written, plugin, config, configDisk, configSaves, done, running,
                   calls, shown, cancelledAt>>
GP_PluginClass ==
    /\ pc = "gp_class"
    /\ LET pluginFile == createFile("plugin")
       IN IF pluginFile.class = <<>>
          THEN /\ Throw(classNotFoundError)
               /\ project' = ("plugin" :> pluginFile)
          ELSE /\ project' = ("plugin" :> [pluginFile EXCEPT !.class = <<ctx.pluginName>>])
               /\ pc' = "gp_consts"
               /\ UNCHANGED <<output, exitCode>>
    /\ UNCHANGED <<featureType, cwd, fsPaths, tpl, configShape, caller, options, pluginDir, promptError,
                   ctx, written, plugin, config, configDisk, configSaves, done, running,
                   calls, shown, cancelledAt>>

(* lines 129-135: getVariableDeclaration(...)?.rename(...).set(...) skips an absent one *)
SetConstants(file) ==
    [file EXCEPT
        !.optionsVar = IF @ = <<>> THEN @
                       ELSE <<[name |-> ctx.pluginInitOptionsName,
                               symbolTag |-> ctx.pluginInitOptionsName]>>,
        !.loggerCtx = IF @ = <<>> THEN @ ELSE <<[literal |-> ctx.pluginName]>>]

(* lines 126-135 *)
GP_Constants ==
    /\ pc = "gp_consts"
    /\ project' = project @@ ("types" :> createFile("types"))
                          @@ ("constants" :> SetConstants(createFile("constants")))
    /\ pc' = "gp_move"
    /\ UNCHANGED <<featureType, cwd, fsPaths, tpl, configShape, caller, options, pluginDir, promptError,
                   ctx, written, plugin, config, configDisk, configSaves, done, running,
                   calls, shown, cancelledAt, output, exitCode>>

(* the paths of lines 137-139 *)
TargetPathCopyPaste(kind) ==
    CASE kind = "types" -> PathJoin(options.pluginDir, S_typesTs)
      [] kind = "plugin" ->
            PathJoin(options.pluginDir, paramCase(ctx.nameWithoutPlugin) \o S_dotPluginTs)
      [] kind = "constants" -> PathJoin(options.pluginDir, S_typesTs)
TargetPath(kind) ==
    CASE kind = "types" -> PathJoin(options.pluginDir, S_typesTs)
      [] kind = "plugin" ->
            PathJoin(options.pluginDir, paramCase(ctx.nameWithoutPlugin) \o S_dotPluginTs)
      [] kind = "constants" -> PathJoin(options.pluginDir, S_constantsTs)

(* lines 137-139: the moves are in memory *)
GP_Move ==
    /\ pc = "gp_move"
    /\ project' = [k \in DOMAIN project |-> [project[k] EXCEPT !.path = TargetPath(k)]]
    /\ pc' = "gp_save"
    /\ UNCHANGED <<featureType, cwd, fsPaths, tpl, configShape, caller, options, pluginDir, promptError,
                   ctx, written, plugin, config, configDisk, configSaves, done, running,
                   calls, shown, cancelledAt, output, exitCode>>

(* project.save(): every source file of the project goes to disk at its path *)
SaveProject ==
    /\ written' = written \cup {project[k] : k \in DOMAIN project}
    /\ fsPaths' = fsPaths \cup UNION {WithParents(project[k].path) : k \in DOMAIN project}

(* lines 141-143 *)
GP_Save ==
    /\ pc = "gp_save"
    /\ output' = Append(output, "Generated plugin scaffold")
    /\ SaveProject
    /\ plugin' = <<[classDeclaration |-> "plugin"]>>
    /\ pc' = IF caller = "createNewPlugin" THEN "config" ELSE "returned"
    /\ UNCHANGED <<featureType, cwd, tpl, configShape, caller, options, pluginDir, promptError, ctx,
                   project, config, configDisk, configSaves, done, running, calls, shown,
                   cancelledAt, exitCode>>

(* VendurePluginRef: name and getSourceFile() read the class declaration *)
PluginRefName == project[plugin[1].classDeclaration].class[1]
PluginRefSourceFile == project[plugin[1].classDeclaration].path

-----------------------------------------------------------------------------
(* createNewPlugin: the configuration patch *)

addToPluginsArray(cfg, text) == [cfg EXCEPT !.plugins = Append(@, text)]
addImportsToFile(cfg, imp) == [cfg EXCEPT !.imports = Append(@, imp)]

(* lines 63-67 *)
PatchTwice(cfg) ==
    LET entry == [callee |-> PluginRefName, call |-> ".init({})"]
    IN addImportsToFile(addToPluginsArray(addToPluginsArray(cfg, entry), entry),
           [moduleSpecifier |-> PluginRefSourceFile, namedImports |-> <<PluginRefName>>])
Patch(cfg) ==
    addImportsToFile(
        addToPluginsArray(cfg, [callee |-> PluginRefName, call |-> ".init({})"]),
        [moduleSpecifier |-> PluginRefSourceFile, namedImports |-> <<PluginRefName>>])

(* new VendureConfigRef(...) / addToPluginsArray throw when the configuration *)
(* declaration or its plugins array is not found                              *)
VendureConfigRefThrows == ~configShape

(* lines 59-67: nothing catches an error of the patch *)
ConfigPatchSwallows ==
    /\ pc = "config"
    /\ IF VendureConfigRefThrows
       THEN /\ output' = output \o <<"Updating VendureConfig...", configShapeError>>
            /\ done' = FALSE
            /\ shown' = shown + 1
            /\ pc' = "menu"
            /\ UNCHANGED <<config, exitCode>>
       ELSE /\ output' = Append(output, "Updating VendureConfig...")
            /\ config' = <<Patch(configDisk)>>
            /\ pc' = "config_save"
            /\ UNCHANGED <<exitCode, done, shown>>
    /\ UNCHANGED <<featureType, cwd, fsPaths, tpl, configShape, caller, options, pluginDir, promptError,
                   ctx, project, written, plugin, configDisk, configSaves, running,
                   calls, cancelledAt>>
ConfigPatch ==
    /\ pc = "config"
    /\ IF VendureConfigRefThrows
       THEN /\ output' = output \o <<"Updating VendureConfig...", configShapeError>>
            /\ exitCode' = <<1>>
            /\ pc' = "crashed"
            /\ UNCHANGED config
       ELSE /\ output' = Append(output, "Updating VendureConfig...")
            /\ config' = <<Patch(configDisk)>>
            /\ pc' = "config_save"
            /\ UNCHANGED exitCode
    /\ UNCHANGED <<featureType, cwd, fsPaths, tpl, configShape, caller, options, pluginDir, promptError,
                   ctx, project, written, plugin, configDisk, configSaves, done, running,
                   calls, shown, cancelledAt>>

(* lines 68-73: save, then the first display of the menu *)
ConfigSave ==
    /\ pc = "config_save"
    /\ configDisk' = config[1]
    /\ configSaves' = configSaves + 1
    /\ output' = Append(output, "Updated VendureConfig")
    /\ done' = FALSE
    /\ shown' = shown + 1
    /\ pc' = "menu"
    /\ UNCHANGED <<featureType, cwd, fsPaths, tpl, configShape, caller, options, pluginDir, promptError,
                   ctx, project, written, plugin, config, running, calls, cancelledAt,
                   exitCode>>

-----------------------------------------------------------------------------
(* createNewPlugin: the feature menu *)

(* lines 89-99: the generator a menu value stands for *)
DispatchSwapped(value) ==
    CASE value = "entity" -> "addService"
      [] value = "uiExtensions" -> "addUiExtensions"
      [] value = "codegen" -> "addCodegen"
      [] value = "service" -> "addEntity"
Dispatch(value) ==
    CASE value = "entity" -> "addEntity"
      [] value = "uiExtensions" -> "addUiExtensions"
      [] value = "codegen" -> "addCodegen"
      [] value = "service" -> "addService"

(* lines 71, 72 and 102: the loop ends and the completion message is printed *)
LeaveLoop ==
    /\ done' = TRUE
    /\ output' = Append(output, outroMessage)
    /\ pc' = "done"

(* the user picks a menu value; a generator is called with the plugin reference *)
SelectFeatureNoAwait(value) ==
    /\ pc = "menu"
    /\ featureType' = <<value>>
    /\ IF value = "no"
       THEN /\ LeaveLoop
            /\ UNCHANGED <<running, calls, shown>>
       ELSE /\ shown < MaxMenu
            /\ running' = <<[fn |-> Dispatch(value), arg |-> plugin[1]]>>
            /\ calls' = [calls EXCEPT ![Dispatch(value)] = @ + 1]
            /\ shown' = shown + 1
            /\ pc' = "menu"
            /\ UNCHANGED <<done, output>>
    /\ UNCHANGED <<cwd, fsPaths, tpl, configShape, caller, options, pluginDir, promptError,
                   ctx, project, written, plugin, config, configDisk, configSaves,
                   cancelledAt, exitCode>>
SelectFeature(value) ==
    /\ pc = "menu"
    /\ featureType' = <<value>>
    /\ IF value = "no"
       THEN /\ LeaveLoop
            /\ UNCHANGED <<running, calls>>
       ELSE /\ shown < MaxMenu
            /\ running' = <<[fn |-> Dispatch(value), arg |-> plugin[1]]>>
            /\ calls' = [calls EXCEPT ![Dispatch(value)] = @ + 1]
            /\ pc' = "generator"
            /\ UNCHANGED <<done, output>>
    /\ UNCHANGED <<cwd, fsPaths, tpl, configShape, caller, options, pluginDir, promptError,
                   ctx, project, written, plugin, config, configDisk, configSaves, shown,
                   cancelledAt, exitCode>>

(* lines 86-88: the user cancels the menu; no branch of lines 89-99 matches *)
MenuCancel ==
    /\ pc = "menu"
    /\ featureType' = <<"cancel">>
    /\ cancelledAt' = <<"menu">>
    /\ LeaveLoop
    /\ UNCHANGED <<cwd, fsPaths, tpl, configShape, caller, options, pluginDir, promptError,
                   ctx, project, written, plugin, config, configDisk, configSaves, running,
                   calls, shown, exitCode>>

(* the awaited generator completes; the loop shows the menu again *)
GeneratorReturns ==
    /\ pc = "generator"
    /\ running' = <<>>
    /\ featureType' = <<>>
    /\ shown' = shown + 1
    /\ pc' = "menu"
    /\ UNCHANGED <<cwd, fsPaths, tpl, configShape, caller, options, pluginDir, promptError,
                   ctx, project, written, plugin, config, configDisk, configSaves, done,
                   calls, cancelledAt, output, exitCode>>

-----------------------------------------------------------------------------
(* Specifications *)

GeneratePluginStep ==
    \/ GP_Derive
    \/ GP_PluginClass
    \/ GP_Constants
    \/ GP_Move
    \/ GP_Save

Next ==
    \/ Intro
    \/ \E input \in PromptInputs : NamePrompt(input)
    \/ NameCancel
    \/ \E input \in DirInputs(pluginDir) : DirPrompt(input)
    \/ DirCancel
    \/ GeneratePluginStep
    \/ ConfigPatch
    \/ ConfigSave
    \/ \E value \in FeatureTypes : SelectFeature(value)
    \/ MenuCancel
    \/ GeneratorReturns

Spec == Init /\ [][Next]_vars

(* generatePlugin called on its own *)
SpecGen == InitGen /\ [][GeneratePluginStep]_vars

-----------------------------------------------------------------------------
(* Vocabulary of the properties *)

Printed(m) == \E i \in DOMAIN output : output[i] = m
TimesPrinted(m) == Cardinality({i \in DOMAIN output : output[i] = m})
LastPrinted == output[Len(output)]

TotalCalls ==
    calls["addEntity"] + calls["addService"] + calls["addUiExtensions"] + calls["addCodegen"]

InGeneratePlugin == pc \in {"gp_derive", "gp_class", "gp_consts", "gp_move", "gp_save"}
BeforeGeneratePlugin == pc \in {"start", "name", "dir"}

(* the disk as createNewPlugin found it *)
DiskUntouched ==
    /\ written = {}
    /\ fsPaths \subseteq WithParents(cwd) \cup {PathJoin(cwd, S_packageJson)}
    /\ configSaves = 0
    /\ configDisk = [plugins |-> <<>>, imports |-> <<>>]

EndsInPlugin(s) == Len(s) >= 6 /\ toLowerCase(Suffix(s, 6)) = S_plugin

-----------------------------------------------------------------------------
(* C1: generatePlugin is atomic with respect to disk: when the plugin      *)
(* class, the options variable or the loggerCtx variable cannot be located *)
(* in its template, the operation fails, no plugin reference is returned   *)
(* and no file is written.                                                 *)
C1_AtomicOnMissingDeclaration ==
    (~tpl.class \/ ~tpl.options \/ ~tpl.logger) =>
        /\ written = {}
        /\ plugin = <<>>

-----------------------------------------------------------------------------
(* C2, as stated: a cancellation at any prompt, the feature menu included, *)
(* prints the cancellation message and exits with code 0, and no           *)
(* completion message follows.                                             *)
C2_CancelExitsAtEveryPrompt ==
    cancelledAt # <<>> =>
        /\ pc = "exited"
        /\ exitCode = <<0>>
        /\ LastPrinted = cancelledMessage
        /\ ~Printed(outroMessage)

(* C2, amended: a cancellation at the name prompt or at the directory      *)
(* prompt prints the cancellation message last and exits with code 0, with *)
(* no generator call and no completion message; a cancellation at the      *)
(* feature menu calls no generator, leaves the loop and prints the         *)
(* completion message, without the cancellation message and without        *)
(* process.exit; the cancellation message is printed in no other case.     *)
C2_Cancellation ==
    /\ cancelledAt \in {<<"name">>, <<"dir">>} =>
          /\ pc = "exited"
          /\ exitCode = <<0>>
          /\ LastPrinted = cancelledMessage
          /\ TimesPrinted(cancelledMessage) = 1
          /\ ~Printed(outroMessage)
          /\ TotalCalls = 0 /\ running = <<>>
          /\ ~ENABLED Next
    /\ cancelledAt = <<"menu">> =>
          /\ pc = "done"
          /\ exitCode = <<>>
          /\ LastPrinted = outroMessage
          /\ ~Printed(cancelledMessage)
          /\ running = <<>>
          /\ ~ENABLED Next
    /\ (Printed(cancelledMessage) \/ pc = "exited") => cancelledAt \in {<<"name">>, <<"dir">>}

C2_Witness == cancelledAt = <<"dir">> /\ pc = "exited" /\ options.name # <<>>

-----------------------------------------------------------------------------
(* C3: in the feature loop each selection of entity, service, uiExtensions *)
(* or codegen calls exactly the corresponding generator, once, with the    *)
(* plugin reference, and the menu is shown again when it completes; 'no'   *)
(* or a cancellation calls no generator, leaves the loop and the           *)
(* completion message is printed exactly once; the loop ends no other way. *)
ExpectedGenerator(v) ==
    CASE v = "entity" -> "addEntity"
      [] v = "service" -> "addService"
      [] v = "uiExtensions" -> "addUiExtensions"
      [] v = "codegen" -> "addCodegen"

C3_MenuStep ==
    /\ pc = "menu" =>
          \/ /\ pc' = "generator"
             /\ featureType'[1] \in {"entity", "service", "uiExtensions", "codegen"}
             /\ running' = <<[fn |-> ExpectedGenerator(featureType'[1]), arg |-> plugin[1]]>>
             /\ calls' = [calls EXCEPT ![ExpectedGenerator(featureType'[1])] = @ + 1]
             /\ output' = output
          \/ /\ pc' = "done"
             /\ featureType' \in {<<"no">>, <<"cancel">>}
             /\ calls' = calls /\ running' = <<>>
             /\ output' = Append(output, outroMessage)
    /\ pc = "generator" =>
          /\ pc' = "menu"
          /\ shown' = shown + 1
          /\ calls' = calls /\ running' = <<>>
          /\ output' = output
    /\ pc' = "done" => pc = "menu"

C3_MenuState ==
    /\ TimesPrinted(outroMessage) = (IF pc = "done" THEN 1 ELSE 0)
    /\ pc = "menu" => TotalCalls = shown - 1
    /\ pc = "generator" => TotalCalls = shown
    /\ pc = "done" => TotalCalls = shown - 1 /\ done

C3_FeatureLoop == [][C3_MenuStep]_vars /\ []C3_MenuState

C3_Witness ==
    pc = "done" /\ calls["addEntity"] = 1 /\ calls["addCodegen"] = 1 /\ featureType = <<"no">>

-----------------------------------------------------------------------------
(* C4: nothing is written before both prompts have returned a validated    *)
(* value: while createNewPlugin is at a prompt, and after a cancellation   *)
(* at the name or the directory prompt, the disk is as it was found,       *)
(* generatePlugin was never called and the configuration is not patched.   *)
C4_NoWriteBeforePrompts ==
    (BeforeGeneratePlugin \/ cancelledAt \in {<<"name">>, <<"dir">>}) =>
        /\ DiskUntouched
        /\ ctx = NoCtx /\ project = <<>> /\ plugin = <<>>
        /\ ~Printed("Generating plugin scaffold...")
        /\ config = <<>>

C4_Witness == cancelledAt = <<"name">> /\ exitCode = <<0>> /\ promptError # <<>>

-----------------------------------------------------------------------------
(* C5: a validation failure keeps the flow at its prompt and crashes       *)
(* nothing; generatePlugin is only called by createNewPlugin with a name   *)
(* matching ^[a-z][a-z-0-9]+$ and a pluginDir that did not exist when it   *)
(* was validated.                                                          *)
MatchesNameRegex(s) ==
    /\ Len(s) >= 2
    /\ s[1] \in {LowerAlpha[i] : i \in DOMAIN LowerAlpha}
    /\ \A i \in 2..Len(s) :
          s[i] \in {LowerAlpha[j] : j \in DOMAIN LowerAlpha} \cup {"-"} \cup Digits

C5_ValidationRecovers ==
    /\ promptError = <<nameInvalidMessage>> =>
          pc \in {"name", "exited"} /\ options.name = <<>> /\ exitCode # <<1>>
    /\ promptError = <<dirExistsMessage>> =>
          pc \in {"dir", "exited"} /\ options.pluginDir = <<>> /\ exitCode # <<1>>
    /\ (caller = "createNewPlugin" /\ pc \notin {"start", "name", "exited"}) =>
          MatchesNameRegex(options.name)
    /\ (caller = "createNewPlugin" /\ pc \notin {"start", "name", "dir", "exited"}) =>
          /\ promptError = <<>>
          /\ options.pluginDir \notin WithParents(cwd)
    /\ (caller = "createNewPlugin" /\ InGeneratePlugin) => ~existsSync(options.pluginDir)

C5_Witness ==
    pc = "dir" /\ promptError = <<dirExistsMessage>> /\ MatchesNameRegex(options.name)

-----------------------------------------------------------------------------
(* C6: a feature generator runs only after generatePlugin has saved the    *)
(* plugin files and after the configuration patch is saved; generators run *)
(* one at a time, and the menu is open only while no generator runs.       *)
C6_GeneratorsSequential ==
    /\ (running # <<>> \/ TotalCalls > 0 \/ pc \in {"menu", "generator"}) =>
          /\ plugin # <<>>
          /\ DOMAIN project = {"plugin", "types", "constants"}
          /\ \A k \in DOMAIN project : project[k] \in written
          /\ configSaves = 1 /\ config = <<configDisk>>
          /\ pc \in {"menu", "generator", "done"}
    /\ pc = "generator" <=> running # <<>>
    /\ pc = "generator" => TotalCalls = shown
    /\ pc \in {"menu", "done"} => TotalCalls = shown - 1

C6_Witness ==
    /\ pc = "generator" /\ running = <<[fn |-> "addService", arg |-> plugin[1]]>>
    /\ calls["addEntity"] = 1

-----------------------------------------------------------------------------
(* C7: the configuration file is changed at most once in a run: one        *)
(* plugins entry '<pluginName>.init({})', one import of pluginName from    *)
(* the plugin's source file, one save, however often the menu is shown.    *)
C7_ConfigPatchedOnce ==
    /\ configSaves <= 1
    /\ configSaves = 0 => configDisk = [plugins |-> <<>>, imports |-> <<>>]
    /\ configSaves = 1 =>
          /\ configDisk.plugins = <<[callee |-> ctx.pluginName, call |-> ".init({})"]>>
          /\ configDisk.imports =
                <<[moduleSpecifier |-> TargetPath("plugin"), namedImports |-> <<ctx.pluginName>>]>>
    /\ pc \in {"menu", "generator", "done"} => configSaves = 1 /\ config = <<configDisk>>
    /\ TimesPrinted("Updated VendureConfig") = configSaves

C7_Witness == pc = "menu" /\ shown = MaxMenu /\ configSaves = 1

-----------------------------------------------------------------------------
(* C8: when the template holds no class TemplatePlugin, generatePlugin     *)
(* throws before any file is moved or saved, once, returns no plugin       *)
(* reference, and createNewPlugin reaches neither the configuration patch  *)
(* nor the menu nor the completion message.                                *)
C8_MissingClassIsFatal ==
    ~tpl.class =>
        /\ pc \in {"start", "name", "dir", "exited", "gp_derive", "gp_class", "crashed"}
        /\ written = {} /\ plugin = <<>>
        /\ \A k \in DOMAIN project : project[k].path[1] = S_templates
        /\ config = <<>> /\ configSaves = 0
        /\ shown = 0 /\ TotalCalls = 0
        /\ ~Printed(outroMessage) /\ ~Printed("Updating VendureConfig...")
        /\ TimesPrinted("Generating plugin scaffold...") <= 1
        /\ pc = "crashed" =>
              /\ LastPrinted = classNotFoundError
              /\ TimesPrinted(classNotFoundError) = 1
              /\ exitCode = <<1>>
              /\ ~ENABLED Next

C8_Witness == pc = "crashed" /\ ~tpl.class /\ caller = "createNewPlugin"

-----------------------------------------------------------------------------
(* C9: name normalization is idempotent on the names the prompt accepts:   *)
(* normalizing the normalized name that generatePlugin derived gives that  *)
(* normalized name again.                                                  *)
C9_NormalizeIdempotent ==
    (pc # "gp_derive" /\ MatchesNameRegex(options.name)) =>
        /\ ctx.normalizedName = ctx.nameWithoutPlugin \o S_dashPlugin
        /\ NormalizeName(ctx.normalizedName) = ctx.normalizedName

C9_Witness ==
    /\ pc = "returned" /\ MatchesNameRegex(options.name)
    /\ ctx.nameWithoutPlugin # options.name /\ ctx.nameWithoutPlugin # <<>>

-----------------------------------------------------------------------------
(* C10, as stated: for a name ending in "plugin" in any case, the          *)
(* normalized name ends in '-plugin' and the part before that suffix does  *)
(* not end in 'plugin'.                                                    *)
BeforeSuffix(s) == Prefix(s, Len(s) - 7)

C10_ExactlyOneSuffix ==
    (pc # "gp_derive" /\ EndsInPlugin(options.name)) =>
        /\ Len(ctx.normalizedName) >= 7
        /\ Suffix(ctx.normalizedName, 7) = S_dashPlugin
        /\ ~EndsInPlugin(BeforeSuffix(ctx.normalizedName))

(* the name ends in two plugin suffixes in a row, as 'pluginplugin' or     *)
(* 'x-plugin-plugin' do *)
EndsInRepeatedPlugin(s) ==
    /\ EndsInPlugin(s)
    /\ \/ EndsInPlugin(Prefix(s, Len(s) - 6))
       \/ Len(s) >= 7 /\ s[Len(s) - 6] = "-" /\ EndsInPlugin(Prefix(s, Len(s) - 7))

(* C10, amended: for a name ending in "plugin" in any case the normalized  *)
(* name ends in '-plugin', and the part before that suffix does not end in *)
(* 'plugin' unless the name ends in two plugin suffixes in a row: only the *)
(* last one is replaced, so one of them stays in front of '-plugin'.       *)
C10_OneSuffixReplaced ==
    (pc # "gp_derive" /\ EndsInPlugin(options.name)) =>
        /\ Len(ctx.normalizedName) >= 7
        /\ Suffix(ctx.normalizedName, 7) = S_dashPlugin
        /\ EndsInPlugin(BeforeSuffix(ctx.normalizedName)) <=> EndsInRepeatedPlugin(options.name)

C10_Witness ==
    /\ pc = "returned"
    /\ Len(options.name) >= 8 /\ Suffix(options.name, 7) = S_dashPLUGIN
    /\ ~EndsInRepeatedPlugin(options.name)

-----------------------------------------------------------------------------
(* C11: suffix collapsing.  For a name n the prompt accepts that does not  *)
(* end in 'plugin', generatePlugin derives pluginName = PascalCase of      *)
(* n + '-plugin' and pluginInitOptionsName = its CONSTANT_CASE followed by *)
(* '_OPTIONS', and it derives the same two names for n + '-plugin'; for    *)
(* 'reviews' they are 'ReviewsPlugin' and 'REVIEWS_PLUGIN_OPTIONS'.        *)
S_ReviewsPlugin == <<"R","e","v","i","e","w","s","P","l","u","g","i","n">>
S_REVIEWS_PLUGIN_OPTIONS ==
    <<"R","E","V","I","E","W","S","_","P","L","U","G","I","N","_",
      "O","P","T","I","O","N","S">>

DerivedFrom(n) ==
    /\ ctx.pluginName = pascalCase(n \o S_dashPlugin)
    /\ ctx.pluginInitOptionsName = constantCase(n \o S_dashPlugin) \o S_OPTIONS

C11_SuffixCollapsing ==
    pc # "gp_derive" =>
        /\ (MatchesNameRegex(options.name) /\ ~EndsInPlugin(options.name)) =>
              DerivedFrom(options.name)
        /\ (Len(options.name) >= 9 /\ Suffix(options.name, 7) = S_dashPlugin) =>
              LET n == Prefix(options.name, Len(options.name) - 7)
              IN (MatchesNameRegex(n) /\ ~EndsInPlugin(n)) => DerivedFrom(n)
        /\ options.name \in {S_reviews, S_reviews \o S_dashPlugin} =>
              /\ ctx.pluginName = S_ReviewsPlugin
              /\ ctx.pluginInitOptionsName = S_REVIEWS_PLUGIN_OPTIONS

C11_Witness ==
    /\ pc = "returned"
    /\ options.name = S_reviews \o S_dashPlugin
    /\ ctx.pluginName = S_ReviewsPlugin

-----------------------------------------------------------------------------
(* C12: the placement policy and its precedence.  The directory offered at *)
(* the directory prompt is <cwd>/<kebab> when the last segment of cwd is   *)
(* 'plugins', whether or not cwd holds a package.json; otherwise           *)
(* <cwd>/src/plugins/<kebab> when cwd holds a package.json; otherwise      *)
(* <cwd>/<kebab>, where <kebab> is the kebab-case of the name without its  *)
(* plugin suffix.  Nothing but cwd, the manifest and the name decides it.  *)
ManifestInCwd == Append(cwd, S_packageJson) \in fsPaths

(* the segments a kebab name adds to a path: none when it is empty *)
Segment(kebab) == IF kebab = <<>> THEN <<>> ELSE <<kebab>>

C12_PlacementPolicy ==
    (caller = "createNewPlugin" /\ options.name # <<>>) =>
        LET kebab == paramCase(StripPluginSuffix(options.name))
        IN pluginDir =
              IF cwd[Len(cwd)] = S_plugins THEN cwd \o Segment(kebab)
              ELSE IF ManifestInCwd THEN cwd \o <<S_src, S_plugins>> \o Segment(kebab)
              ELSE cwd \o Segment(kebab)

C12_Witness ==
    /\ pc = "dir"
    /\ cwd = <<S_app, S_plugins>> /\ ManifestInCwd
    /\ options.name = S_reviews
    /\ pluginDir = <<S_app, S_plugins, S_reviews>>

-----------------------------------------------------------------------------
(* C13: when generatePlugin has returned to createNewPlugin, exactly three *)
(* files are on disk that were not before, with three different paths,    *)
(* all directly under options.pluginDir: types.ts, <kebab>.plugin.ts and   *)
(* constants.ts; nothing else on disk changed but the directories leading  *)
(* to them, and the configuration file is untouched.  Before it returns    *)
(* nothing is written, and nothing more is written afterwards.             *)
WrittenPaths == {f.path : f \in written}

ExpectedFiles ==
    {options.pluginDir \o <<S_typesTs>>,
     options.pluginDir \o <<paramCase(StripPluginSuffix(options.name)) \o S_dotPluginTs>>,
     options.pluginDir \o <<S_constantsTs>>}

C13_ThreeFilesWritten ==
    /\ plugin = <<>> => written = {}
    /\ plugin # <<>> =>
          /\ Cardinality(written) = 3
          /\ Cardinality(WrittenPaths) = 3
          /\ WrittenPaths = ExpectedFiles
          /\ \A p \in WrittenPaths :
                Len(p) = Len(options.pluginDir) + 1 /\ Prefix(p, Len(p) - 1) = options.pluginDir
          /\ fsPaths \subseteq WithParents(cwd) \cup {Append(cwd, S_packageJson)}
                              \cup WithParents(options.pluginDir) \cup WrittenPaths
    /\ pc = "config" =>
          /\ plugin # <<>>
          /\ config = <<>> /\ configSaves = 0
          /\ configDisk = [plugins |-> <<>>, imports |-> <<>>]

C13_Witness ==
    /\ pc = "config"
    /\ options.name = S_reviews \o S_dashPlugin
    /\ options.pluginDir = NewDir
    /\ NewDir \o <<S_reviews \o S_dotPluginTs>> \in WrittenPaths

-----------------------------------------------------------------------------
(* C14: after a run that got through the configuration patch, the          *)
(* generated identifiers agree: the class on disk is named pluginName, the *)
(* constant is named pluginInitOptionsName and initialised with a Symbol   *)
(* tagged with that same name, loggerCtx is the literal pluginName, and    *)
(* the configuration entry and the import name the renamed class.          *)
FileAt(path) == CHOOSE f \in written : f.path = path

C14_IdentifiersAgree ==
    pc \in {"menu", "generator", "done"} =>
        LET pluginFile == FileAt(TargetPath("plugin"))
            constantsFile == FileAt(TargetPath("constants"))
        IN /\ pluginFile.class = <<ctx.pluginName>>
           /\ constantsFile.optionsVar =
                 <<[name |-> ctx.pluginInitOptionsName,
                    symbolTag |-> ctx.pluginInitOptionsName]>>
           /\ constantsFile.loggerCtx = <<[literal |-> ctx.pluginName]>>
           /\ configDisk.plugins = <<[callee |-> pluginFile.class[1], call |-> ".init({})"]>>
           /\ Len(configDisk.imports) = 1
           /\ configDisk.imports[1].namedImports = <<pluginFile.class[1]>>

-----------------------------------------------------------------------------
(* C15: when the configuration file lacks the expected shape, the patch    *)
(* step ends the command with an error: the three files generatePlugin     *)
(* saved stay on disk, the configuration file is not saved, no generator   *)
(* is called and the completion message is not printed.                    *)
C15_ConfigFailureIsFatal ==
    (~configShape /\ plugin # <<>> /\ pc # "config") =>
        /\ pc = "crashed" /\ exitCode = <<1>>
        /\ LastPrinted = configShapeError
        /\ ~ENABLED Next
        /\ Cardinality(written) = 3
        /\ WrittenPaths = ExpectedFiles /\ WrittenPaths \subseteq fsPaths
        /\ config = <<>> /\ configSaves = 0
        /\ configDisk = [plugins |-> <<>>, imports |-> <<>>]
        /\ ~Printed("Updated VendureConfig")
        /\ shown = 0 /\ TotalCalls = 0 /\ running = <<>>
        /\ ~Printed(outroMessage)

C15_Witness ==
    /\ pc = "crashed" /\ ~configShape /\ tpl.class
    /\ Cardinality(written) = 3

-----------------------------------------------------------------------------
(* C16: every name the name prompt accepts keeps at least one character    *)
(* when its plugin suffix is stripped, so the directory offered at the     *)
(* directory prompt lies strictly below cwd (it is neither cwd nor         *)
(* <cwd>/src/plugins) and the plugin file generatePlugin writes has a      *)
(* non-empty stem before '.plugin.ts'.                                     *)
LastSegment(path) == path[Len(path)]

C16_StrippedNameNonEmpty ==
    (caller = "createNewPlugin" /\ options.name # <<>>) =>
        /\ MatchesNameRegex(options.name)
        /\ StripPluginSuffix(options.name) # <<>>
        /\ pluginDir \notin {cwd, cwd \o <<S_src, S_plugins>>}
        /\ \A f \in written : LastSegment(f.path) # S_dotPluginTs

====
